---------------------------- MODULE Spec2Model ----------------------------
(***************************************************************************)
(* A model of the MQTT broker core of mqtt-rust-broker:                    *)
(*   - the fixed-header codec (models/mqtt_headers.rs),                    *)
(*   - the payload parser (models/mqtt_payloads.rs),                       *)
(*   - the ConnAck assembler (models/packets/connack.rs),                  *)
(*   - the command processor Broker::run (models/broker.rs),               *)
(*   - the wired path connection_handler -> MqttPacketDispatcher -> Broker *)
(*     behind a std::sync::Mutex (main.rs, models/mqtt_types.rs).          *)
(*                                                                         *)
(* Bytes are naturals in 0..255, byte vectors and strings are sequences of *)
(* bytes.  A Rust panic is the result [tag |-> "Panic"].                   *)
(*                                                                         *)
(* Three specifications share the variables:                               *)
(*   SpecCodec  applies the pure codec functions to enumerated inputs;     *)
(*   SpecRun    is the loop of Broker::run, started on any Broker value    *)
(*              the struct can hold, fed any BrokerCommand value;          *)
(*   Spec       is the program main.rs wires up: connection tasks, the     *)
(*              mutex, the dispatcher's handlers, an initially empty       *)
(*              Broker.                                                    *)
(***************************************************************************)
EXTENDS Naturals, Integers, Sequences, FiniteSets, TLC

VARIABLES
    cpc,      \* SpecCodec: which codec step has been applied
    cin,      \* SpecCodec: the input record the step is applied to
    cbytes,   \* SpecCodec: bytes produced by to_bytes
    cres,     \* SpecCodec: the result of the last decoding / parsing step
    checks,   \* the build: TRUE = overflow checks on (debug), FALSE = wrapping (release)
    command_rx, \* SpecQueue: the commands buffered in Broker::run's mpsc channel
    handled,  \* SpecQueue: the commands Broker::run has handled, in order
    clients,  \* Broker.clients : client id -> ClientState
    now,      \* logical clock read by SystemTime::now()
    sent,     \* per outbound channel, the binary messages sent on it
    last,     \* record of the command / frame handled last
    prev,     \* record of the command / frame handled before last
    lock,     \* Spec: the Mutex<Broker>: "free", a connection, or "poisoned"
    pc,       \* Spec: per connection task, "idle" | "locked" | "dead"
    frame     \* Spec: per connection task, the frame being handled

vars == <<cpc, cin, cbytes, cres, checks, command_rx, handled, clients, now, sent, last, prev,
          lock, pc, frame>>

---------------------------------------------------------------------------
(* Bytes and bit operations                                                *)

Byte == 0..255

RECURSIVE BitAnd(_, _)
BitAnd(a, b) ==
    IF a = 0 \/ b = 0 THEN 0
    ELSE (a % 2) * (b % 2) + 2 * BitAnd(a \div 2, b \div 2)

RECURSIVE BitOr(_, _)
BitOr(a, b) ==
    IF a = 0 THEN b
    ELSE IF b = 0 THEN a
    ELSE (IF (a % 2) + (b % 2) > 0 THEN 1 ELSE 0) + 2 * BitOr(a \div 2, b \div 2)

RECURSIVE Pow(_, _)
Pow(b, e) == IF e = 0 THEN 1 ELSE b * Pow(b, e - 1)

\* A u32 is kept as two 16-bit limbs [hi, lo] (value hi * 2^16 + lo), so that
\* its whole range and its overflow are exact.
Limb == Pow(2, 16)

U32Of(n) == [hi |-> n \div Limb, lo |-> n % Limb]

\* the natural number of a u32 below 2^31
U32ToNat(x) == x.hi * Limb + x.lo

U32Zero == U32Of(0)

\* x * k for a factor k <= 128: the wrapped product and whether it overflowed
U32MulSmall(x, k) ==
    LET l == x.lo * k
        h == x.hi * k + l \div Limb
    IN  [val |-> [hi |-> h % Limb, lo |-> l % Limb], overflow |-> h >= Limb]

\* x + y: the wrapped sum and whether it overflowed
U32Add(x, y) ==
    LET l == x.lo + y.lo
        h == x.hi + y.hi + l \div Limb
    IN  [val |-> [hi |-> h % Limb, lo |-> l % Limb], overflow |-> h >= Limb]

\* x / 128 and x % 128
U32Div128(x) == [hi |-> x.hi \div 128, lo |-> (x.hi % 128) * 512 + x.lo \div 128]
U32Mod128(x) == x.lo % 128

\* s[from+1 .. to] in 1-based terms, i.e. Rust's &s[from..to]
Slice(s, from, to) == [i \in 1..(to - from) |-> s[from + i]]

Panic == [tag |-> "Panic"]

\* F(e) with e evaluated once, as in `let x = e; F(x)`
Bind(e, F(_)) == CHOOSE y \in {F(x) : x \in {e}} : TRUE

---------------------------------------------------------------------------
(* MqttPacketType (models/mqtt_types.rs)                                   *)

Connect == 1
ConnAck == 2
Publish == 3
PubAck == 4
PubRec == 5
PubRel == 6
PubComp == 7
Subscribe == 8
SubAck == 9
Unsubscribe == 10
UnsubAck == 11
PingReq == 12
PingResp == 13
Disconnect == 14

PacketTypes == Connect..Disconnect

\* MqttPacketType::from_u8
from_u8Mut(value) ==
    IF value \in PacketTypes \cup {15} THEN [tag |-> "Ok", packet_type |-> value]
    ELSE [tag |-> "Err", msg |-> "Invalid MQTT Packet Type"]
from_u8(value) ==
    IF value \in PacketTypes THEN [tag |-> "Ok", packet_type |-> value]
    ELSE [tag |-> "Err", msg |-> "Invalid MQTT Packet Type"]

---------------------------------------------------------------------------
(* MqttHeaders (models/mqtt_headers.rs)                                    *)

\* MqttHeaders::new
MqttHeadersNew(packet_type, flags, remaining_length) ==
    [packet_type |-> packet_type, flags |-> flags,
     remaining_length |-> U32Of(remaining_length), remaining_length_bytes |-> 1]

\* to_bytes, byte 0: (packet_type as u8) << 4 | (flags & 0x0F)
FirstByte(h) == BitOr((h.packet_type * 16) % 256, BitAnd(h.flags, 15))

\* to_bytes, (remaining_length % 128) as u8
LowGroupMut(n) == n.lo % 127
LowGroup(n) == U32Mod128(n)

\* to_bytes, the continuation bit: set iff remaining_length > 0 after the division
ContinuationMut(rest) == IF rest.hi >= 0 THEN 128 ELSE 0
Continuation(rest) == IF rest # U32Zero THEN 128 ELSE 0

\* to_bytes, the loop { ... } over remaining_length
RECURSIVE EncodeRemainingLength(_)
EncodeRemainingLength(n) ==
    LET rest == U32Div128(n)
        encoded_byte == BitOr(LowGroup(n), Continuation(rest))
    IN  IF rest = U32Zero THEN <<encoded_byte>>
        ELSE <<encoded_byte>> \o EncodeRemainingLength(rest)

\* MqttHeaders::to_bytes
MqttHeadersToBytes(h) == <<FirstByte(h)>> \o EncodeRemainingLength(h.remaining_length)

\* parse, multiplier *= 128
NextMultiplierMut(m) == U32MulSmall(m, 127)
NextMultiplier(m) == U32MulSmall(m, 128)

\* parse, the while loop from `index` on.  With overflow checks a u32 overflow
\* of `value += ... * multiplier` or `multiplier *= 128` panics; without, they wrap.
RECURSIVE DecodeLoop(_, _, _, _, _)
DecodeLoop(buffer, index, value, multiplier, chk) ==
    IF ~(index < Len(buffer))
    THEN [tag |-> "Ok", value |-> value, index |-> index]
    ELSE LET encoded_byte == buffer[index + 1]
             term == U32MulSmall(multiplier, BitAnd(encoded_byte, 127))
         IN  Bind(<<term.overflow, U32Add(value, term.val), NextMultiplier(multiplier)>>,
                  LAMBDA s :
                     LET v2 == s[2]
                         m2 == s[3]
                     IN  IF chk /\ (s[1] \/ v2.overflow \/ m2.overflow) THEN Panic
                         ELSE IF BitAnd(encoded_byte, 128) = 0
                         THEN [tag |-> "Ok", value |-> v2.val, index |-> index]
                         ELSE DecodeLoop(buffer, index + 1, v2.val, m2.val, chk))

\* MqttHeaders::parse
MqttHeadersParse(buffer, chk) ==
    IF Len(buffer) < 2
    THEN [tag |-> "Err", msg |-> "Buffer is too short to contain an MQTT Fixed Header"]
    ELSE LET byte1 == buffer[1]
             kind == byte1 \div 16
         IN  IF kind \notin PacketTypes
             THEN [tag |-> "Err", msg |-> "Invalid MQTT Packet Type"]
             ELSE Bind(DecodeLoop(buffer, 1, U32Zero, U32Of(1), chk),
                       LAMBDA d :
                          IF d.tag = "Panic" THEN Panic
                          ELSE [tag |-> "Ok",
                                packet_type |-> kind,
                                flags |-> BitAnd(byte1, 15),
                                remaining_length |-> d.value,
                                remaining_length_bytes |-> d.index])

\* MqttHeaders::incomming_byte_size
incomming_byte_size(h) == h.remaining_length_bytes + 1

---------------------------------------------------------------------------
(* Strings: String::from_utf8(bytes).unwrap()                              *)

Cont(b) == b \in 128..191

\* the number of bytes of the well-formed UTF-8 sequence that starts at
\* s[i], 0 if none does (the Unicode table of well-formed byte sequences)
Utf8SeqLen(s, i) ==
    LET n == Len(s)
        b == s[i]
        c1 == IF i + 1 <= n THEN s[i + 1] ELSE 0
        c2 == IF i + 2 <= n THEN s[i + 2] ELSE 0
        c3 == IF i + 3 <= n THEN s[i + 3] ELSE 0
    IN  IF b < 128 THEN 1
        ELSE IF b \in 194..223 /\ Cont(c1) THEN 2
        ELSE IF b = 224 /\ c1 \in 160..191 /\ Cont(c2) THEN 3
        ELSE IF b \in 225..236 /\ Cont(c1) /\ Cont(c2) THEN 3
        ELSE IF b = 237 /\ c1 \in 128..159 /\ Cont(c2) THEN 3
        ELSE IF b \in 238..239 /\ Cont(c1) /\ Cont(c2) THEN 3
        ELSE IF b = 240 /\ c1 \in 144..191 /\ Cont(c2) /\ Cont(c3) THEN 4
        ELSE IF b \in 241..243 /\ Cont(c1) /\ Cont(c2) /\ Cont(c3) THEN 4
        ELSE IF b = 244 /\ c1 \in 128..143 /\ Cont(c2) /\ Cont(c3) THEN 4
        ELSE 0

RECURSIVE Utf8From(_, _)
Utf8From(s, i) ==
    IF i > Len(s) THEN TRUE
    ELSE LET k == Utf8SeqLen(s, i)
         IN  IF k = 0 THEN FALSE ELSE Utf8From(s, i + k)

\* String::from_utf8(..).is_ok()
Utf8Valid(s) == Utf8From(s, 1)

\* Option<T>
Some(x) == <<x>>
None == <<>>

---------------------------------------------------------------------------
(* PayloadFactory (models/mqtt_payloads.rs)                                *)

WILL_FLAG == 4
USER_NAME_FLAG == 128
PASSWORD_FLAG == 64
QOS_MASK_VALID == 3
QOS_MASK_INVALID == 252

\* PayloadFactory::extract_utf8_string; start_idx is 0-based as in the source.
\* Indexing past the end, slicing past the end and invalid UTF-8 all panic.
extract_utf8_stringMut(payload_data, start_idx) ==
    IF start_idx + 1 >= Len(payload_data) THEN Panic
    ELSE LET string_length ==
                 BitOr(payload_data[start_idx + 1] * 256, payload_data[start_idx + 2])
             from == start_idx + 2
         IN  IF string_length + from > Len(payload_data) THEN Panic
             ELSE [tag |-> "Ok", length |-> string_length,
                   string |-> Slice(payload_data, from, from + string_length),
                   idx |-> from + string_length + 1]
extract_utf8_string(payload_data, start_idx) ==
    IF start_idx + 1 >= Len(payload_data) THEN Panic
    ELSE LET string_length ==
                 BitOr(payload_data[start_idx + 1] * 256, payload_data[start_idx + 2])
             from == start_idx + 2
         IN  IF string_length + from > Len(payload_data) THEN Panic
             ELSE LET bytes == Slice(payload_data, from, from + string_length)
                  IN  IF ~Utf8Valid(bytes) THEN Panic
                      ELSE [tag |-> "Ok", length |-> string_length,
                            string |-> bytes, idx |-> from + string_length]

\* an optional field: extracted when its flag bit is set in connect_flags,
\* String::new() and an unmoved cursor otherwise
OptionalField(connect_flags, flag, payload_data, idx) ==
    IF BitAnd(connect_flags, flag) # 0
    THEN extract_utf8_string(payload_data, idx)
    ELSE [tag |-> "Ok", length |-> 0, string |-> <<>>, idx |-> idx]

\* parse_payload, the ConnectHeader branch.  client_id_length == 0 and
\* client_id_length > 23 are logged with error!() only; parsing goes on.
ParseConnectPayload(connect_header, payload_data) ==
    LET fl == connect_header.connect_flags
    IN
    Bind(extract_utf8_string(payload_data, 0), LAMBDA cid :
      IF cid.tag = "Panic" THEN Panic ELSE
      Bind(OptionalField(fl, WILL_FLAG, payload_data, cid.idx), LAMBDA wt :
        IF wt.tag = "Panic" THEN Panic ELSE
        Bind(OptionalField(fl, WILL_FLAG, payload_data, wt.idx), LAMBDA wm :
          IF wm.tag = "Panic" THEN Panic ELSE
          Bind(OptionalField(fl, USER_NAME_FLAG, payload_data, wm.idx), LAMBDA un :
            IF un.tag = "Panic" THEN Panic ELSE
            Bind(OptionalField(fl, PASSWORD_FLAG, payload_data, un.idx), LAMBDA pw :
              IF pw.tag = "Panic" THEN Panic
              ELSE [tag |-> "Connect",
                    client_id |-> Some(cid.string),
                    will_topic |-> Some(wt.string),
                    will_message |-> Some(wm.string),
                    username |-> Some(un.string),
                    password |-> Some(pw.string)])))))

\* parse_payload, the SubscribeHeader branch
ParseSubscribePayload(payload_data) ==
    Bind(extract_utf8_string(payload_data, 0), LAMBDA t :
        IF t.tag = "Panic" THEN Panic
        ELSE IF ~(t.idx < Len(payload_data)) THEN Panic
        ELSE LET qos == payload_data[t.idx + 1]
             \* qos & QOS_MASK_INVALID != 0 is logged with error!() only
             IN  [tag |-> "Subscribe",
                  subscription_topic |-> t.string,
                  qos |-> BitAnd(qos, QOS_MASK_VALID)])

\* PayloadFactory::parse_payload: dispatch on the concrete header type
parse_payload(variable_header, payload_data) ==
    IF variable_header.header_type = Connect
    THEN ParseConnectPayload(variable_header, payload_data)
    ELSE IF variable_header.header_type = Publish
    THEN [tag |-> "Publish", payload |-> payload_data]
    ELSE IF variable_header.header_type = Subscribe
    THEN ParseSubscribePayload(payload_data)
    ELSE [tag |-> "Default"]

---------------------------------------------------------------------------
(* ConnAckHeader (models/mqtt_headers.rs), ConnAck (packets/connack.rs)    *)

\* ConnAckHeader::new
ConnAckHeaderNew(session_present, return_code) ==
    [header_type |-> ConnAck, session_present |-> session_present,
     return_code |-> return_code]

\* ConnAckHeader::to_bytes
ConnAckHeaderToBytes(h) == <<IF h.session_present THEN 1 ELSE 0, h.return_code>>

\* `connect_flags & 0b00000010 == 1` parses as (connect_flags & 2) == 1
CleanSessionTest(connect_flags) == BitAnd(connect_flags, 2) = 1

\* the (session_present, return_code) pair of new_success and handle_connect
AcceptHeader(connect_flags) ==
    IF CleanSessionTest(connect_flags)
    THEN ConnAckHeaderNew(FALSE, 0)
    ELSE ConnAckHeaderNew(TRUE, 0)

\* ConnAck::new_success
new_success(connect_header) ==
    [fixed_header |-> MqttHeadersNew(ConnAck, 0, 2),
     variable_header |-> AcceptHeader(connect_header.connect_flags),
     payload |-> [tag |-> "Default"]]

\* ConnAck::to_bytes
ConnAckToBytes(c) ==
    MqttHeadersToBytes(c.fixed_header) \o ConnAckHeaderToBytes(c.variable_header)

---------------------------------------------------------------------------
(* Values shared by the specifications                                     *)

NoRecord == [kind |-> "none"]

EmptyMap == [x \in {} |-> 0]

\* n copies of byte b
Rep(b, n) == [i \in 1..n |-> b]

\* a length-prefixed string field: 2-byte big-endian length, then the bytes
Field(str) == <<Len(str) \div 256, Len(str) % 256>> \o str

RECURSIVE Fields(_, _)
Fields(str, k) == IF k = 0 THEN <<>> ELSE Field(str) \o Fields(str, k - 1)

\* "test"
TestStr == <<116, 101, 115, 116>>

---------------------------------------------------------------------------
(* SpecCodec: the codec functions applied to enumerated inputs             *)

\* the largest remaining length MQTT allows: 4 groups of 7 bits
RLLimit == Pow(128, 4) - 1

\* the values at which the encoding grows by a byte
RLBoundaries == {0, 128, 16384, 2097152, 268435456}

\* how far around each boundary the remaining lengths are taken
RLSpread == 2

RLValues ==
    {v \in UNION {{b + d, b - 1 - d} : b \in RLBoundaries, d \in 0..RLSpread}
        : v >= 0 /\ v <= RLLimit}
    \cup {10}

\* the longest client id tried
MaxIdLen == 24

\* the most optional fields appended after the client id
MaxExtraFields == 4

ConnectFlagsTried == {0, 2, 4, 64, 128, 196, 198}

HeaderInputs ==
    {[kind |-> "header", h |-> MqttHeadersNew(k, f, n)]
        : k \in PacketTypes, f \in 0..15, n \in RLValues}

ConnectHeaderOf(connect_flags, keep_alive) ==
    [header_type |-> Connect, protocol_name |-> <<77, 81, 84, 84>>,
     protocol_level |-> 4, connect_flags |-> connect_flags,
     keep_alive |-> keep_alive]

ConnectPayloadInputs ==
    {[kind |-> "payload",
      header |-> ConnectHeaderOf(fl, 60),
      data |-> Field(Rep(97, n)) \o Fields(TestStr, k)]
        : fl \in ConnectFlagsTried, n \in 0..MaxIdLen, k \in 0..MaxExtraFields}

\* the longest of the field lengths tried in the payloads below
MaxFieldLen == 4

FieldLens == {0, 1, MaxFieldLen}

\* the flag that says whether the i-th field of a Connect payload is there:
\* client id (always), will topic, will message, username, password
FieldPresent(connect_flags, i) ==
    CASE i = 1 -> TRUE
      [] i \in {2, 3} -> BitAnd(connect_flags, WILL_FLAG) # 0
      [] i = 4 -> BitAnd(connect_flags, USER_NAME_FLAG) # 0
      [] i = 5 -> BitAnd(connect_flags, PASSWORD_FLAG) # 0

\* the i-th field on the wire, nothing when its flag is clear
FieldBytes(connect_flags, fields, i) ==
    IF FieldPresent(connect_flags, i) THEN Field(fields[i]) ELSE <<>>

\* Connect payloads whose fields differ in content ("a..", "b..", .. by
\* position) and in length; `fields` keeps what was put on the wire, the
\* empty string for a field that was left out
OrderedPayload(fl, fields) ==
    [kind |-> "payload",
     header |-> ConnectHeaderOf(fl, 60),
     fields |-> fields,
     data |-> FieldBytes(fl, fields, 1) \o FieldBytes(fl, fields, 2)
              \o FieldBytes(fl, fields, 3) \o FieldBytes(fl, fields, 4)
              \o FieldBytes(fl, fields, 5)]

OrderedPayloadInputs ==
    UNION {{OrderedPayload(fl, [i \in 1..5 |-> Rep(96 + i, lens[i])])
               : lens \in {l \in [1..5 -> FieldLens] :
                              \A i \in 1..5 : ~FieldPresent(fl, i) => l[i] = 0}}
            : fl \in {w + u + pw : w \in {0, WILL_FLAG}, u \in {0, USER_NAME_FLAG},
                                    pw \in {0, PASSWORD_FLAG}}}

SubscribePayloadInputs ==
    {[kind |-> "payload",
      header |-> [header_type |-> Subscribe, packet_id |-> 0],
      data |-> Field(TestStr) \o <<q>>] : q \in Byte}
    \cup {[kind |-> "payload",
           header |-> [header_type |-> Subscribe, packet_id |-> 0],
           data |-> Field(TestStr)]}

OtherPayloadInputs ==
    {[kind |-> "payload",
      header |-> [header_type |-> Publish, topic_name |-> TestStr, packet_id |-> 0],
      data |-> <<0, 1, 2, 3>>],
     [kind |-> "payload",
      header |-> ConnAckHeaderNew(TRUE, 0),
      data |-> <<>>]}

ConnectHeaderInputs ==
    {[kind |-> "connect_header", header |-> ConnectHeaderOf(fl, ka)]
        : fl \in Byte, ka \in {0, 60}}

CodecInputs ==
    HeaderInputs \cup ConnectPayloadInputs \cup OrderedPayloadInputs
    \cup SubscribePayloadInputs
    \cup OtherPayloadInputs \cup ConnectHeaderInputs

InitCodec ==
    /\ cpc = "start"
    /\ cin \in CodecInputs
    /\ cbytes = <<>>
    /\ cres = NoRecord
    /\ checks \in BOOLEAN
    /\ command_rx = <<>>
    /\ handled = <<>>
    /\ clients = EmptyMap
    /\ now = 0
    /\ sent = EmptyMap
    /\ last = NoRecord
    /\ prev = NoRecord
    /\ lock = "free"
    /\ pc = EmptyMap
    /\ frame = EmptyMap

\* h.to_bytes()
ToBytes ==
    /\ cpc = "start"
    /\ cin.kind = "header"
    /\ cbytes' = MqttHeadersToBytes(cin.h)
    /\ cpc' = "encoded"
    /\ UNCHANGED <<cin, cres, checks, command_rx, handled, clients, now, sent, last, prev, lock, pc, frame>>

\* MqttHeaders::parse(&bytes)
ParseBack ==
    /\ cpc = "encoded"
    /\ cres' = MqttHeadersParse(cbytes, checks)
    /\ cpc' = "parsed"
    /\ UNCHANGED <<cin, cbytes, checks, command_rx, handled, clients, now, sent, last, prev, lock, pc, frame>>

\* PayloadFactory::parse_payload(&header, data)
ParsePayload ==
    /\ cpc = "start"
    /\ cin.kind = "payload"
    /\ cres' = parse_payload(cin.header, cin.data)
    /\ cpc' = "payload"
    /\ UNCHANGED <<cin, cbytes, checks, command_rx, handled, clients, now, sent, last, prev, lock, pc, frame>>

\* ConnAck::new_success(&header).to_bytes()
NewSuccess ==
    /\ cpc = "start"
    /\ cin.kind = "connect_header"
    /\ cres' = new_success(cin.header)
    /\ cbytes' = ConnAckToBytes(new_success(cin.header))
    /\ cpc' = "connack"
    /\ UNCHANGED <<cin, checks, command_rx, handled, clients, now, sent, last, prev, lock, pc, frame>>

NextCodec == ToBytes \/ ParseBack \/ ParsePayload \/ NewSuccess

SpecCodec == InitCodec /\ [][NextCodec]_vars

---------------------------------------------------------------------------
(* Claims on the codec, checked under SpecCodec                            *)

\* C1: fixed-header round trip.  For every header h with packet kind 1..14,
\* flags 0..15 and remaining_length 0..268435455, parse(h.to_bytes()) is Ok
\* and has h's packet_type, flags and remaining_length.
C1_RoundTrip ==
    cpc = "parsed" =>
        /\ cres.tag = "Ok"
        /\ cres.packet_type = cin.h.packet_type
        /\ cres.flags = cin.h.flags
        /\ cres.remaining_length = cin.h.remaining_length

\* a header whose remaining length takes all four length bytes went round
C1_Witness ==
    /\ cpc = "parsed"
    /\ cin.h.remaining_length = U32Of(RLLimit)
    /\ cin.h.flags = 15
    /\ Len(cbytes) = 5
    /\ cres.tag = "Ok"

\* the reference base-128 encoding: the number of 7-bit groups of v, and
\* group i (least significant first) with 0x80 on all but the last
NumGroups(v) == CHOOSE n \in 1..5 : v < Pow(128, n) /\ (n = 1 \/ v >= Pow(128, n - 1))

RefEncode(v) ==
    [i \in 1..NumGroups(v) |->
        ((v \div Pow(128, i - 1)) % 128) + (IF i < NumGroups(v) THEN 128 ELSE 0)]

\* C2: after byte 0, to_bytes emits the reference base-128 encoding of
\* remaining_length; 0 -> [0x00], 10 -> [0x0A], 127 -> [0x7F],
\* 128 -> [0x80,0x01], 16383 -> [0xFF,0x7F], 16384 -> [0x80,0x80,0x01].
C2_Encoding ==
    cpc = "encoded" =>
        LET n == U32ToNat(cin.h.remaining_length)
            enc == Tail(cbytes)
        IN  /\ enc = RefEncode(n)
            /\ n = 0 => enc = <<0>>
            /\ n = 10 => enc = <<10>>
            /\ n = 127 => enc = <<127>>
            /\ n = 128 => enc = <<128, 1>>
            /\ n = 16383 => enc = <<255, 127>>
            /\ n = 16384 => enc = <<128, 128, 1>>

\* the three-byte boundary value has been encoded
C2_Witness ==
    /\ cpc = "encoded"
    /\ cin.h.remaining_length = U32Of(16384)
    /\ cbytes = <<FirstByte(cin.h), 128, 128, 1>>

\* the client id length prefix of a Connect payload input
IdLen(data) == data[1] * 256 + data[2]

\* C3 (as claimed): parse_payload with a Connect header returns no Connect
\* payload when the client id length is 0 or above 23, and returns one for
\* every client id of length 1..23 (flags 0: nothing else is required).
C3_ClientIdBounds ==
    (cpc = "payload" /\ cin.header.header_type = Connect
        /\ cin.header.connect_flags = 0) =>
        IF IdLen(cin.data) = 0 \/ IdLen(cin.data) > 23
        THEN cres.tag # "Connect"
        ELSE cres.tag = "Connect"

\* C4 (as claimed): parse_payload with a Subscribe header yields no
\* SubscribePayload when one of the top 6 bits of the QoS byte is set, and
\* otherwise yields qos = the low 2 bits.
C4_SubscribeQoS ==
    (cpc = "payload" /\ cin.header.header_type = Subscribe
        /\ Len(cin.data) = Len(Field(TestStr)) + 1) =>
        LET q == cin.data[Len(cin.data)]
        IN  IF q >= 4
            THEN cres.tag # "Subscribe"
            ELSE cres.tag = "Subscribe" /\ cres.qos = q

\* C5 (as claimed): new_success(header).to_bytes() is [0x20, 0x02, sp, 0x00]
\* with sp = 0 when the clean-session flag (bit 1) is set and 1 when clear.
C5_ConnAckAccept ==
    cpc = "connack" =>
        LET clean == (cin.header.connect_flags \div 2) % 2 = 1
        IN  cbytes = <<32, 2, IF clean THEN 0 ELSE 1, 0>>

\* C13 (as claimed): in the parsed Connect payload will_topic and
\* will_message are present iff flag bit 2 is set, username iff bit 7 is set
\* and password iff bit 6 is set; a field whose flag is clear is absent.
C13_OptionalFields ==
    (cpc = "payload" /\ cres.tag = "Connect") =>
        LET fl == cin.header.connect_flags
        IN  /\ cres.will_topic # None <=> BitAnd(fl, WILL_FLAG) # 0
            /\ cres.will_message # None <=> BitAnd(fl, WILL_FLAG) # 0
            /\ cres.username # None <=> BitAnd(fl, USER_NAME_FLAG) # 0
            /\ cres.password # None <=> BitAnd(fl, PASSWORD_FLAG) # 0

\* C14: parse_payload reads client id, will topic, will message, username
\* and password in that order, those whose flag is clear left out, each as
\* a 2-byte big-endian length L and L bytes, the next field starting right
\* after: every field put on the wire comes back as the field of its name,
\* and a field left out comes back as the empty string.
C14_FieldOrder ==
    (cpc = "payload" /\ "fields" \in DOMAIN cin) =>
        cres = [tag |-> "Connect",
                client_id |-> Some(cin.fields[1]),
                will_topic |-> Some(cin.fields[2]),
                will_message |-> Some(cin.fields[3]),
                username |-> Some(cin.fields[4]),
                password |-> Some(cin.fields[5])]

\* with flags 0xC4, five fields of length 4 and of different content have
\* been parsed, the last one found where the fourth ended
C14_Witness ==
    /\ cpc = "payload"
    /\ "fields" \in DOMAIN cin
    /\ cin.header.connect_flags = 196
    /\ \A i \in 1..5 : Len(cin.fields[i]) = 4
    /\ Len(cin.data) = 30
    /\ cres.tag = "Connect"
    /\ cres.password = Some(<<101, 101, 101, 101>>)

\* C17 (as claimed): a header made by MqttHeaders::new(kind, flags, n) and the
\* header MqttHeaders::parse makes of its bytes both have
\* remaining_length_bytes = the number of bytes (1..4) that encode
\* remaining_length on the wire, so that incomming_byte_size() is the offset
\* at which the variable header starts.
C17_ConsumedBytes ==
    /\ cpc \in {"encoded", "parsed"} =>
          /\ cin.h.remaining_length_bytes =
                 NumGroups(U32ToNat(cin.h.remaining_length))
          /\ incomming_byte_size(cin.h) = Len(cbytes)
    /\ cpc = "parsed" =>
          /\ cres.tag = "Ok"
          /\ cres.remaining_length_bytes =
                 NumGroups(U32ToNat(cin.h.remaining_length))
          /\ incomming_byte_size(cres) = Len(cbytes)

---------------------------------------------------------------------------
(* ClientState and Broker (models/broker.rs)                               *)

ConnectionStatus == {"Connected", "Disconnected", "AwaitingReconnect"}

\* ClientState::new; t is SystemTime::now()
ClientStateNewMut(client_id, keep_alive, ws_sender, t) ==
    [client_id |-> client_id,
     connected_status |-> "AwaitingReconnect",
     subscriptions |-> {},
     last_seen |-> t,
     keep_alive |-> keep_alive,
     ws_sender |-> ws_sender]
ClientStateNew(client_id, keep_alive, ws_sender, t) ==
    [client_id |-> client_id,
     connected_status |-> "Connected",
     subscriptions |-> {},
     last_seen |-> t,
     keep_alive |-> keep_alive,
     ws_sender |-> ws_sender]

\* ClientState::update_last_seen
update_last_seen(client, t) == [client EXCEPT !.last_seen = t]

\* Broker::add_client: HashMap::insert, which replaces an entry of the same key
add_clientMut(cl, client_id, keep_alive, ws_sender, t) ==
    IF client_id \in DOMAIN cl THEN cl
    ELSE [x \in DOMAIN cl \cup {client_id} |->
            IF x = client_id
            THEN ClientStateNew(client_id, keep_alive, ws_sender, t)
            ELSE cl[x]]
add_client(cl, client_id, keep_alive, ws_sender, t) ==
    [x \in DOMAIN cl \cup {client_id} |->
        IF x = client_id
        THEN ClientStateNew(client_id, keep_alive, ws_sender, t)
        ELSE cl[x]]

\* Broker::remove_client; the caller sees a panic (unwrap of None) when the
\* id is absent
remove_client(cl, client_id) == [x \in DOMAIN cl \ {client_id} |-> cl[x]]

\* Broker::is_client_connected
is_client_connected(cl, client_id) == client_id \in DOMAIN cl

\* Broker::update_client_activity
update_client_activity(cl, client_id, t) ==
    IF client_id \in DOMAIN cl
    THEN [cl EXCEPT ![client_id] = update_last_seen(cl[client_id], t)]
    ELSE cl

\* fixed_header.get_qos_level(): the QoS bits (bits 1..2) of the flags nibble
get_qos_level(fixed_header) == (fixed_header.flags \div 2) % 4

\* variable_header.get_topic_name()
get_topic_name(variable_header) == variable_header.topic_name

\* Broker::run, Publish: the test that puts a client on client_queue
IsRecipientMut(client, topic_name) == topic_name \in client.subscriptions
IsRecipient(client, topic_name) ==
    topic_name \in client.subscriptions /\ client.connected_status = "Connected"

\* Broker::run, Publish: client_queue, as the set of the queued clients' ids
client_queue(cl, topic_name) == {c \in DOMAIN cl : IsRecipient(cl[c], topic_name)}

\* Broker::run, Publish: what the `match qos_level` arm does to a queued client
DeliverMut(client, qos_level, t) ==
    IF qos_level = 0
    THEN [client EXCEPT !.last_seen = t, !.connected_status = "Disconnected"]
    ELSE client
Deliver(client, qos_level, t) ==
    IF qos_level = 0 THEN update_last_seen(client, t) ELSE client

Err(msg) == [tag |-> "Err", msg |-> msg]
Ok(value) == [tag |-> "Ok", value |-> value]

\* the record kept of a handled command: the command, the registry and the
\* channels before it, the clients it queued and what its responder received
Handled(kind, cmd, recipients, responses) ==
    [kind |-> kind, cmd |-> cmd, before |-> clients, sent_before |-> sent,
     at |-> now, recipients |-> recipients, responses |-> responses]

---------------------------------------------------------------------------
(* SpecRun: the loop of Broker::run                                        *)

\* how many commands the processor handles; the clock advances with each
MaxTime == 2

IdA == <<97>>
IdB == <<98>>
IdC == <<99>>
RunIds == {IdA, IdB, IdC}

TopicT == <<116>>
TopicU == <<117>>
Topics == {TopicT, TopicU}

Channels == {"chA", "chB", "chC", "chNew"}

ChanOf(id) == IF id = IdA THEN "chA" ELSE IF id = IdB THEN "chB" ELSE "chC"

\* the states a ClientState of key `id` starts in: any status, any of the
\* subscription sets tried
StartStates(id) ==
    {[client_id |-> id, connected_status |-> st, subscriptions |-> subs,
      last_seen |-> 0, keep_alive |-> 60, ws_sender |-> ChanOf(id)]
        : st \in ConnectionStatus, subs \in {{}, {TopicT}}}

StartRegistries ==
    UNION {{r \in [S -> UNION {StartStates(id) : id \in S}]
               : \A id \in S : r[id].client_id = id}
            : S \in SUBSET RunIds}

ConnectPayloadOf(client_id) ==
    [tag |-> "Connect", client_id |-> client_id, will_topic |-> Some(<<>>),
     will_message |-> Some(<<>>), username |-> Some(<<>>), password |-> Some(<<>>)]

PublishPayloadOf(bytes) == [tag |-> "Publish", payload |-> bytes]

DefaultPayload == [tag |-> "Default"]

ConnectCommands ==
    {[kind |-> "Connect",
      packet |-> [fixed_header |-> MqttHeadersNew(Connect, 0, 0),
                  variable_header |-> ConnectHeaderOf(fl, 30),
                  payload |-> p],
      ws_sender |-> "chNew"]
        : fl \in {0, 2},
          p \in {ConnectPayloadOf(Some(IdA)), ConnectPayloadOf(None), DefaultPayload}}

ConnAckCommands == {[kind |-> "ConnAck"]}

PublishCommands ==
    {[kind |-> "Publish",
      packet |-> [fixed_header |-> MqttHeadersNew(Publish, 2 * q, 0),
                  variable_header |-> [header_type |-> Publish,
                                       topic_name |-> tp, packet_id |-> 1],
                  payload |-> p]]
        : q \in 0..3, tp \in Topics, p \in {PublishPayloadOf(<<1>>)}}
    \cup
    {[kind |-> "Publish",
      packet |-> [fixed_header |-> MqttHeadersNew(Publish, 0, 0),
                  variable_header |-> [header_type |-> Publish,
                                       topic_name |-> TopicT, packet_id |-> 1],
                  payload |-> DefaultPayload]]}

InitRun ==
    /\ cpc = "run"
    /\ cin = NoRecord
    /\ cbytes = <<>>
    /\ cres = NoRecord
    /\ checks = TRUE
    /\ command_rx = <<>>
    /\ handled = <<>>
    /\ clients \in StartRegistries
    /\ now = 1
    /\ sent = [ch \in Channels |-> <<>>]
    /\ last = NoRecord
    /\ prev = NoRecord
    /\ lock = "free"
    /\ pc = EmptyMap
    /\ frame = EmptyMap

\* what every handled command does besides its own effect: the clock moves on
\* and the records of the last two commands shift
Shift(rec) ==
    /\ now' = now + 1
    /\ prev' = last
    /\ last' = rec
    /\ UNCHANGED <<cpc, cin, cbytes, cres, checks, lock, pc, frame>>

\* BrokerCommand::Connect
RunConnectMut(cmd) ==
    /\ now <= MaxTime
    /\ LET payload == cmd.packet.payload
           variable_header == cmd.packet.variable_header
           client_id == IF payload.tag # "Connect" THEN None
                        ELSE IF payload.client_id = None THEN Some(<<>>)
                        ELSE payload.client_id
       IN  IF client_id # None
           THEN /\ clients' = add_client(clients, client_id[1],
                                         variable_header.keep_alive, cmd.ws_sender, now)
                /\ UNCHANGED sent
                /\ Shift(Handled("Connect", cmd, {},
                                 <<IF payload.client_id = None
                                   THEN Err("Client ID not provided")
                                   ELSE Ok(new_success(variable_header))>>))
           ELSE /\ UNCHANGED <<clients, sent>>
                /\ Shift(Handled("Connect", cmd, {}, <<Err("Invalid payload")>>))
RunConnect(cmd) ==
    /\ now <= MaxTime
    /\ LET payload == cmd.packet.payload
           variable_header == cmd.packet.variable_header
       IN  IF payload.tag # "Connect"
           THEN /\ UNCHANGED <<clients, sent>>
                /\ Shift(Handled("Connect", cmd, {}, <<Err("Invalid payload")>>))
           ELSE IF payload.client_id # None
           THEN /\ clients' = add_client(clients, payload.client_id[1],
                                         variable_header.keep_alive, cmd.ws_sender, now)
                /\ UNCHANGED sent
                /\ Shift(Handled("Connect", cmd, {},
                                 <<Ok(new_success(variable_header))>>))
           ELSE /\ UNCHANGED <<clients, sent>>
                /\ Shift(Handled("Connect", cmd, {},
                                 <<Err("Client ID not provided")>>))

\* BrokerCommand::ConnAck
RunConnAck(cmd) ==
    /\ now <= MaxTime
    /\ UNCHANGED <<clients, sent>>
    /\ Shift(Handled("ConnAck", cmd, {},
                     <<Err("Broker should never recieve a CONNACK packet")>>))

\* BrokerCommand::Publish.  Nothing is sent on any ws_sender and, once the
\* queue is not empty, nothing on the responder either.
RunPublish(cmd) ==
    /\ now <= MaxTime
    /\ UNCHANGED sent
    /\ IF cmd.packet.payload.tag # "Publish"
       THEN /\ UNCHANGED clients
            /\ Shift(Handled("Publish", cmd, {}, <<Err("Invalid payload")>>))
       ELSE LET topic_name == get_topic_name(cmd.packet.variable_header)
                queue == client_queue(clients, topic_name)
                qos_level == get_qos_level(cmd.packet.fixed_header)
            IN  IF queue = {}
                THEN /\ UNCHANGED clients
                     /\ Shift(Handled("Publish", cmd, {},
                                      <<Err("No subscribers found for topic")>>))
                ELSE /\ clients' = [c \in DOMAIN clients |->
                                      IF c \in queue
                                      THEN Deliver(clients[c], qos_level, now)
                                      ELSE clients[c]]
                     /\ Shift(Handled("Publish", cmd, queue, <<>>))

NextRun ==
    \/ \E cmd \in ConnectCommands : RunConnect(cmd) /\ UNCHANGED <<command_rx, handled>>
    \/ \E cmd \in ConnAckCommands : RunConnAck(cmd) /\ UNCHANGED <<command_rx, handled>>
    \/ \E cmd \in PublishCommands : RunPublish(cmd) /\ UNCHANGED <<command_rx, handled>>

SpecRun == InitRun /\ [][NextRun]_vars

---------------------------------------------------------------------------
(* Claims on Broker::run, checked under SpecRun                            *)

\* the last command was a Publish that got past the payload match
PublishHandled ==
    last.kind = "Publish" /\ last.cmd.packet.payload.tag = "Publish"

\* the entries of registry r subscribed to exactly topic tp and Connected
ConnectedSubscribers(r, tp) ==
    {c \in DOMAIN r :
        tp \in r[c].subscriptions /\ r[c].connected_status = "Connected"}

\* the number of messages the last command put on channel ch
NewlySent(ch) == Len(sent[ch]) - Len(last.sent_before[ch])

ConnectHandled ==
    /\ last.kind = "Connect"
    /\ last.cmd.packet.payload.tag = "Connect"
    /\ last.cmd.packet.payload.client_id # None

\* C9: after Broker::run handles a Connect whose payload is a Connect payload
\* with client id c, the registry maps c to one entry that is Connected, has
\* no subscriptions, the header's keep-alive and last_seen = the time of the
\* handling, whether or not c was registered before; every other entry is
\* unchanged; the responder receives Ok(ConnAck) with return code 0.
C9_ConnectCommand ==
    ConnectHandled =>
        LET c == last.cmd.packet.payload.client_id[1]
            h == last.cmd.packet.variable_header
        IN  /\ DOMAIN clients = DOMAIN last.before \cup {c}
            /\ clients[c].client_id = c
            /\ clients[c].connected_status = "Connected"
            /\ clients[c].subscriptions = {}
            /\ clients[c].keep_alive = h.keep_alive
            /\ clients[c].last_seen = last.at
            /\ clients[c].ws_sender = last.cmd.ws_sender
            /\ \A o \in DOMAIN last.before \ {c} : clients[o] = last.before[o]
            /\ Len(last.responses) = 1
            /\ last.responses[1].tag = "Ok"
            /\ last.responses[1].value.fixed_header.packet_type = ConnAck
            /\ last.responses[1].value.variable_header.return_code = 0

\* a Connect for an id that was registered, Disconnected and subscribed,
\* beside another entry, has been handled
C9_Witness ==
    /\ ConnectHandled
    /\ last.cmd.packet.payload.client_id = Some(IdA)
    /\ IdA \in DOMAIN last.before
    /\ IdB \in DOMAIN last.before
    /\ last.before[IdA].connected_status = "Disconnected"
    /\ last.before[IdA].subscriptions = {TopicT}
    /\ last.before[IdA].keep_alive # last.cmd.packet.variable_header.keep_alive
    /\ clients[IdA].connected_status = "Connected"

\* C22: when Broker::run handles a Connect whose payload is not a Connect
\* payload, or whose client id is missing, the responder receives an error
\* and the registry (and every channel) is what it was before the command.
C22_FailedConnect ==
    (last.kind = "Connect"
        /\ (IF last.cmd.packet.payload.tag # "Connect" THEN TRUE
            ELSE last.cmd.packet.payload.client_id = None)) =>
        /\ Len(last.responses) = 1
        /\ last.responses[1].tag = "Err"
        /\ clients = last.before
        /\ sent = last.sent_before

\* a Connect without a client id has met a registry of two entries and got
\* "Client ID not provided"
C22_Witness ==
    /\ last.kind = "Connect"
    /\ last.cmd.packet.payload = ConnectPayloadOf(None)
    /\ DOMAIN last.before = {IdA, IdB}
    /\ last.responses = <<Err("Client ID not provided")>>
    /\ clients = last.before

\* C10: a Publish handled twice in succession selects the same recipients
\* and gets the same response both times, and handling a Publish changes no
\* entry's key, subscriptions or status.
C10_PublishIdempotent ==
    /\ (last.kind = "Publish" /\ prev.kind = "Publish" /\ last.cmd = prev.cmd) =>
          /\ last.recipients = prev.recipients
          /\ last.responses = prev.responses
    /\ last.kind = "Publish" =>
          /\ DOMAIN clients = DOMAIN last.before
          /\ \A c \in DOMAIN clients :
                /\ clients[c].client_id = last.before[c].client_id
                /\ clients[c].subscriptions = last.before[c].subscriptions
                /\ clients[c].connected_status = last.before[c].connected_status

\* the same QoS 0 Publish was handled twice, both times selecting the same
\* two recipients, the first handling having refreshed their last_seen
C10_Witness ==
    /\ last.kind = "Publish"
    /\ prev.kind = "Publish"
    /\ last.cmd = prev.cmd
    /\ get_qos_level(last.cmd.packet.fixed_header) = 0
    /\ last.recipients = {IdA, IdB}
    /\ prev.recipients = {IdA, IdB}
    /\ last.before # prev.before

---------------------------------------------------------------------------
(* ConnectHeader (models/mqtt_headers.rs), Connect (packets/connect.rs)    *)

\* "MQTT"
MqttName == <<77, 81, 84, 84>>

\* ConnectHeader::new
ConnectHeaderNew(protocol_name, protocol_level, connect_flags, keep_alive) ==
    IF Len(protocol_name) # 4 /\ protocol_name # MqttName
    THEN Err("Invalid Protocol Name")
    ELSE Ok([header_type |-> Connect, protocol_name |-> protocol_name,
             protocol_level |-> protocol_level, connect_flags |-> connect_flags,
             keep_alive |-> keep_alive])

\* ConnectHeader::from_bytes on the 8 bytes it is given; both unwraps panic
ConnectHeaderFromBytes(data) ==
    Bind(Slice(data, 0, 4), LAMBDA name :
        IF ~Utf8Valid(name) THEN Panic
        ELSE Bind(ConnectHeaderNew(name, data[5], data[6], data[7] * 256 + data[8]),
                  LAMBDA r : IF r.tag = "Err" THEN Panic ELSE r))

\* Connect::from_bytes: the variable header is data[2..10], the payload
\* data[10..], whatever the fixed header says; fixed_header is unwrapped last
ConnectFromBytes(data, chk) ==
    Bind(MqttHeadersParse(data, chk), LAMBDA fixed_header :
      IF fixed_header.tag = "Panic" THEN Panic
      ELSE IF Len(data) < 10 THEN Panic
      ELSE
      Bind(ConnectHeaderFromBytes(Slice(data, 2, 10)), LAMBDA vh :
        IF vh.tag = "Panic" THEN Panic
        ELSE
        Bind(parse_payload(vh.value, Slice(data, 10, Len(data))), LAMBDA payload :
          IF payload.tag = "Panic" THEN Panic
          ELSE IF fixed_header.tag = "Err" THEN Panic
          ELSE Ok([fixed_header |-> fixed_header,
                   variable_header |-> vh.value,
                   payload |-> payload]))))

---------------------------------------------------------------------------
(* MqttPacketDispatcher (models/mqtt_types.rs)                             *)

\* handle_connect calls add_client(&client_id, keep_alive): no sender is given
NoSender == "none"

\* what a handler gives back: the Broker it leaves and the bytes it returns
Returned(cl, bytes) == [tag |-> "Ok", clients |-> cl, ret |-> bytes]

\* MqttPacketDispatcher::handle_connect
handle_connect(data, cl, t, chk) ==
    Bind(ConnectFromBytes(data, chk), LAMBDA connect :
        IF connect.tag = "Panic" THEN Panic
        ELSE IF connect.value.payload.tag # "Connect" THEN Returned(cl, <<>>)
        ELSE IF connect.value.payload.client_id = None THEN Panic
        ELSE LET client_id == connect.value.payload.client_id[1]
                 vh == connect.value.variable_header
             IN  IF is_client_connected(cl, client_id)
                 THEN Returned(remove_client(cl, client_id), <<>>)
                 ELSE Returned(
                        add_client(cl, client_id, vh.keep_alive, NoSender, t),
                        MqttHeadersToBytes(MqttHeadersNew(ConnAck, 0, 2))
                            \o ConnAckHeaderToBytes(AcceptHeader(vh.connect_flags))))

\* handle_connack .. handle_disconnect: `let packet = Vec::new(); packet`
handle_emptyMut(data, cl) ==
    IF data[1] \div 16 = Subscribe
    THEN Returned([c \in DOMAIN cl |->
                     [cl[c] EXCEPT !.subscriptions = @ \cup {TestStr}]], <<>>)
    ELSE Returned(cl, <<>>)
handle_empty(data, cl) == Returned(cl, <<>>)

\* the handler MqttPacketDispatcher::new registers for the packet type
DispatchMut(packet_type, data, cl, t, chk) ==
    IF packet_type = Connect THEN handle_connect(data, cl, t, chk)
    ELSE IF packet_type = PingReq THEN Returned(cl, <<208, 0>>)
    ELSE handle_empty(data, cl)
Dispatch(packet_type, data, cl, t, chk) ==
    IF packet_type = Connect THEN handle_connect(data, cl, t, chk)
    ELSE handle_empty(data, cl)

---------------------------------------------------------------------------
(* Spec: connection tasks, the mutex and the dispatcher (main.rs)          *)

\* how many frames reach try_lock; the clock advances with each
MaxFrames == 2

Conns == {"conn1", "conn2"}

\* a CONNECT frame: fixed header, variable header, client id, extra fields
ConnectFrame(id, connect_flags, keep_alive, extra) ==
    LET body == MqttName \o <<4, connect_flags, keep_alive \div 256, keep_alive % 256>>
                \o Field(id) \o extra
    IN  <<16, Len(body)>> \o body

ConnectFrames ==
    {ConnectFrame(id, fl, 60, <<>>) : id \in {IdA, IdB}, fl \in {0, 2}}
    \cup {ConnectFrame(IdA, 196, 60, Fields(TestStr, 3)),
          ConnectFrame(<<>>, 0, 60, <<>>)}

\* frames of the other packet types
OtherFrames ==
    {<<32, 2, 0, 0>>,                                  \* CONNACK
     <<48, 8>> \o Field(TestStr) \o <<0, 1>> \o <<7>>,  \* PUBLISH
     <<130, 9, 0, 1>> \o Field(TestStr) \o <<1>>,       \* SUBSCRIBE
     <<192, 0>>,                                        \* PINGREQ
     <<224, 0>>}                                        \* DISCONNECT

\* frames the decoding path is not prepared for
MalformedFrames ==
    {<<>>, <<16>>, <<0, 0>>, <<240, 0>>,
     <<16, 0>>,                                         \* CONNECT cut short
     <<16, 12>> \o MqttName \o <<4, 0, 0, 60, 0, 9, 97>>, \* id length past the end
     <<16, 11>> \o MqttName \o <<4, 0, 0, 60, 0, 1, 255>>} \* id not UTF-8

Frames == ConnectFrames \cup OtherFrames \cup MalformedFrames

Init ==
    /\ cpc = "wired"
    /\ cin = NoRecord
    /\ cbytes = <<>>
    /\ cres = NoRecord
    /\ checks \in BOOLEAN
    /\ command_rx = <<>>
    /\ handled = <<>>
    /\ clients = EmptyMap
    /\ now = 1
    /\ sent = [t \in Conns |-> <<>>]
    /\ last = NoRecord
    /\ prev = NoRecord
    /\ lock = "free"
    /\ pc = [t \in Conns |-> "idle"]
    /\ frame = [t \in Conns |-> <<>>]

\* connection_handler before the lock: data[0], data[1] and
\* from_u8(message_type).unwrap() panic on a short frame or a bad nibble
PanicsBeforeLock(data) ==
    IF Len(data) < 2 THEN TRUE ELSE from_u8(data[1] \div 16).tag = "Err"

\* a frame arrives whose first lines panic: the task ends, the lock untouched
RecvPanic(t, data) ==
    /\ pc[t] = "idle"
    /\ PanicsBeforeLock(data)
    /\ pc' = [pc EXCEPT ![t] = "dead"]
    /\ UNCHANGED <<cpc, cin, cbytes, cres, checks, command_rx, handled, clients, now, sent, last,
                   prev, lock, frame>>

\* broker.try_lock() is Ok
TryLockOkMut(t, data) ==
    /\ pc[t] = "idle"
    /\ now <= MaxFrames
    /\ ~PanicsBeforeLock(data)
    /\ lock # "poisoned"
    /\ lock' = t
    /\ pc' = [pc EXCEPT ![t] = "locked"]
    /\ frame' = [frame EXCEPT ![t] = data]
    /\ UNCHANGED <<cpc, cin, cbytes, cres, checks, command_rx, handled, clients, now, sent, last, prev>>
TryLockOk(t, data) ==
    /\ pc[t] = "idle"
    /\ now <= MaxFrames
    /\ ~PanicsBeforeLock(data)
    /\ lock = "free"
    /\ lock' = t
    /\ pc' = [pc EXCEPT ![t] = "locked"]
    /\ frame' = [frame EXCEPT ![t] = data]
    /\ UNCHANGED <<cpc, cin, cbytes, cres, checks, command_rx, handled, clients, now, sent, last, prev>>

\* broker.try_lock() is Err (held by another task, or poisoned): the frame
\* is dropped with an error!() line
TryLockErr(t, data) ==
    /\ pc[t] = "idle"
    /\ now <= MaxFrames
    /\ ~PanicsBeforeLock(data)
    /\ lock # "free"
    /\ now' = now + 1
    /\ prev' = last
    /\ last' = [kind |-> "dropped", cmd |-> [conn |-> t, data |-> data],
                before |-> clients, sent_before |-> sent, at |-> now,
                recipients |-> {}, responses |-> <<>>]
    /\ UNCHANGED <<cpc, cin, cbytes, cres, checks, command_rx, handled, clients, sent, lock, pc, frame>>

\* function(&data, &mut *broker_guard), drop(broker_guard), sender.send(..).
\* A panic inside the handler unwinds through the guard and poisons the mutex.
Handle(t) ==
    /\ pc[t] = "locked"
    /\ \E r \in {Dispatch(frame[t][1] \div 16, frame[t], clients, now, checks)} :
       LET cmd == [conn |-> t, data |-> frame[t]]
       IN  IF r.tag = "Panic"
           THEN /\ lock' = "poisoned"
                /\ pc' = [pc EXCEPT ![t] = "dead"]
                /\ UNCHANGED <<clients, sent>>
                /\ now' = now + 1
                /\ prev' = last
                /\ last' = Handled("frame", cmd, {}, <<Panic>>)
           ELSE /\ lock' = "free"
                /\ pc' = [pc EXCEPT ![t] = "idle"]
                /\ clients' = r.clients
                /\ sent' = IF Len(r.ret) = 0 THEN sent
                           ELSE [sent EXCEPT ![t] = Append(@, r.ret)]
                /\ now' = now + 1
                /\ prev' = last
                /\ last' = Handled("frame", cmd, {}, <<Ok(r.ret)>>)
    /\ frame' = [frame EXCEPT ![t] = <<>>]
    /\ UNCHANGED <<cpc, cin, cbytes, cres, checks, command_rx, handled>>

Next ==
    \/ \E t \in Conns, data \in Frames : RecvPanic(t, data)
    \/ \E t \in Conns, data \in Frames : TryLockOk(t, data)
    \/ \E t \in Conns, data \in Frames : TryLockErr(t, data)
    \/ \E t \in Conns : Handle(t)

Spec == Init /\ [][Next]_vars

---------------------------------------------------------------------------
(* Claims on the wired dispatcher, checked under Spec                      *)

\* C8 (as claimed): when handle_connect handles a CONNECT frame for a client
\* id c that is already registered, the second session is installed: after
\* it is_client_connected(c) holds, c's entry is the one made by this
\* handling, and the handler returned the ConnAck accept bytes.
C8_DuplicateConnect ==
    \A id \in {IdA, IdB}, fl \in {0, 2} :
        (last.kind = "frame"
            /\ last.cmd.data = ConnectFrame(id, fl, 60, <<>>)
            /\ id \in DOMAIN last.before) =>
            /\ is_client_connected(clients, id)
            /\ clients[id].last_seen = last.at
            /\ last.responses \in {<<Ok(<<32, 2, 0, 0>>)>>, <<Ok(<<32, 2, 1, 0>>)>>}

---------------------------------------------------------------------------
(* PublishHeader (models/mqtt_headers.rs)                                  *)

\* PublishHeader::from_bytes, topic_name_length: `data[start]` with start = 0,
\* one byte, the cursor moved on by 2
TopicNameLength(data) == data[1]

\* PublishHeader::from_bytes; indexing or slicing past the end and invalid
\* UTF-8 panic
PublishHeaderFromBytes(data) ==
    IF Len(data) < 1 THEN Panic
    ELSE LET topic_name_length == TopicNameLength(data)
             idx == 2 + topic_name_length
         IN  IF idx > Len(data) THEN Panic
             ELSE Bind(Slice(data, 2, idx), LAMBDA topic_name :
                    IF ~Utf8Valid(topic_name) THEN Panic
                    ELSE IF idx + 2 > Len(data) THEN Panic
                    ELSE Ok([header_type |-> Publish,
                             topic_name |-> topic_name,
                             packet_id |-> data[idx + 1] * 256 + data[idx + 2]]))

\* ConnAckHeader::from_bytes, the test for session_present:
\* data[0] & SESSION_PRESENT_INVALID_MASK == 0 && data[0] & SESSION_PRESENT_MASK == 1
SessionPresentTestMut(b0) == BitAnd(b0, 1) = 1
SessionPresentTest(b0) == BitAnd(b0, 254) = 0 /\ BitAnd(b0, 1) = 1

\* ConnAckHeader::from_bytes; data[0] and data[1] panic on a shorter slice
ConnAckHeaderFromBytes(data) ==
    IF Len(data) < 2 THEN Panic
    ELSE Ok(ConnAckHeaderNew(SessionPresentTest(data[1]), data[2]))

---------------------------------------------------------------------------
(* Publish (models/packets/publish.rs)                                     *)

\* Publish::from_bytes: the variable header is read from data[2..], the
\* payload is data[10..], whatever the headers say; fixed_header is
\* unwrapped last
PublishFromBytes(data, chk) ==
    Bind(MqttHeadersParse(data, chk), LAMBDA fixed_header :
      IF fixed_header.tag = "Panic" THEN Panic
      ELSE IF Len(data) < 2 THEN Panic
      ELSE
      Bind(PublishHeaderFromBytes(Slice(data, 2, Len(data))), LAMBDA vh :
        IF vh.tag = "Panic" THEN Panic
        ELSE IF Len(data) < 10 THEN Panic
        ELSE
        Bind(parse_payload(vh.value, Slice(data, 10, Len(data))), LAMBDA payload :
          IF fixed_header.tag = "Err" THEN Panic
          ELSE Ok([fixed_header |-> fixed_header,
                   variable_header |-> vh.value,
                   payload |-> payload]))))

---------------------------------------------------------------------------
(* SpecDecode: the decoders applied to enumerated inputs                   *)

\* the longest topic tried
MaxTopicLen == 5

TopicsTried == {Rep(116, n) : n \in 0..MaxTopicLen} \cup {TestStr}

PacketIdsTried == {0, 1, 258, 65535}

\* a Publish variable header on the wire: the topic as a length-prefixed
\* string, then the packet id, big-endian
PublishHeaderBytes(topic, packet_id) ==
    Field(topic) \o <<packet_id \div 256, packet_id % 256>>

PublishHeaderInputs ==
    {[kind |-> "publish_header", topic |-> tp, packet_id |-> id,
      data |-> PublishHeaderBytes(tp, id)]
        : tp \in TopicsTried, id \in PacketIdsTried}

\* "ABCD", "MQT", "MQTTT", "", "mqtt" beside "MQTT"
ProtocolNamesTried ==
    {MqttName, <<65, 66, 67, 68>>, <<77, 81, 84>>, <<77, 81, 84, 84, 84>>, <<>>,
     <<109, 113, 116, 116>>}

ProtocolNameInputs ==
    {[kind |-> "protocol_name", name |-> n, protocol_level |-> 4,
      connect_flags |-> fl, keep_alive |-> ka]
        : n \in ProtocolNamesTried, fl \in {0, 2}, ka \in {0, 60}}

\* the most length bytes put after byte 0 in the buffers below
MaxLengthBytes == 5

RECURSIVE SeqsOf(_, _)
\* the sequences of length n over the set S
SeqsOf(S, n) ==
    IF n = 0 THEN {<<>>}
    ELSE {<<b>> \o t : b \in S, t \in SeqsOf(S, n - 1)}

\* buffers whose every byte after byte 0 has the continuation bit set
UnterminatedBuffers ==
    {<<b0>> \o t : b0 \in {16, 48},
                   t \in UNION {SeqsOf({128, 129, 255}, n) : n \in 1..MaxLengthBytes}}

\* the same, a terminating length byte added
TerminatedBuffers == {b \o <<1>> : b \in UnterminatedBuffers}

\* every byte 0, with a remaining length of 0
NibbleBuffers == {<<b0, 0>> : b0 \in Byte}

BufferInputs ==
    {[kind |-> "buffer", data |-> b]
        : b \in UnterminatedBuffers \cup TerminatedBuffers \cup NibbleBuffers}

\* every u8
PacketTypeInputs == {[kind |-> "packet_type", value |-> v] : v \in Byte}

\* remaining_length values over the whole of u32: around 2^28, 2^31 and the
\* largest, beside the lengths the codec is tried with
U32Tried ==
    {U32Of(n) : n \in RLValues}
    \cup {U32Of(RLLimit + 1 + d) : d \in 0..RLSpread}
    \cup {[hi |-> 32767, lo |-> 65535], [hi |-> 32768, lo |-> 0],
          [hi |-> 65535, lo |-> 65535]}

\* MqttHeaders { packet_type, flags, remaining_length, remaining_length_bytes: 1 }
WideHeaderInputs ==
    {[kind |-> "wide_header",
      h |-> [MqttHeadersNew(k, 0, 0) EXCEPT !.remaining_length = u]]
        : k \in {Connect, Publish}, u \in U32Tried}

\* a frame: byte 0, the remaining length of the body in base 128, the body
WireFrame(byte0, body) == <<byte0>> \o RefEncode(Len(body)) \o body

PublishPayloadsTried == {<<>>, <<7>>, <<1, 2, 3>>, TestStr \o TestStr}

\* well-formed PUBLISH frames: topic, packet id, payload
PublishFrameInputs ==
    {[kind |-> "publish_frame", topic |-> tp, packet_id |-> id, payload |-> pl,
      data |-> WireFrame(48, PublishHeaderBytes(tp, id) \o pl)]
        : tp \in TopicsTried, id \in {1, 258}, pl \in PublishPayloadsTried}

\* lengths of the will message: the bodies they give are 31, 127, 128 and
\* 131 bytes long, so that the remaining length takes 1 and 2 bytes
WillLensTried == {0, 96, 97, 100}

ConnectFrameOf(fl, ka, fields) ==
    [kind |-> "connect_frame", connect_flags |-> fl, keep_alive |-> ka,
     fields |-> fields,
     data |-> WireFrame(16, MqttName \o <<4, fl, ka \div 256, ka % 256>>
                            \o OrderedPayload(fl, fields).data)]

\* well-formed CONNECT frames with a will, a username and a password
ConnectFrameInputs ==
    {ConnectFrameOf(196, ka, <<IdA, TestStr, Rep(109, n), TestStr, TestStr>>)
        : ka \in {60, 300}, n \in WillLensTried}

ReturnCodesTried == {0, 1, 5, 255}

\* every first byte, with the return codes tried
ConnAckBytesInputs ==
    {[kind |-> "connack_bytes", data |-> <<b0, b1>>]
        : b0 \in Byte, b1 \in ReturnCodesTried}

\* every ConnAckHeader
ConnAckHeaderInputs ==
    {[kind |-> "connack_header", h |-> ConnAckHeaderNew(sp, rc)]
        : sp \in BOOLEAN, rc \in Byte}

\* a frame of every packet kind (and a well-formed CONNECT), met by an empty
\* registry and by one that holds a client
DispatchInputs ==
    {[kind |-> "dispatch", data |-> d, clients |-> r]
        : d \in {<<16 * k, 0>> : k \in PacketTypes}
                 \cup {ConnectFrame(IdB, 0, 60, <<>>),
                       <<130, 9, 0, 1>> \o Field(TestStr) \o <<1>>},
          r \in {EmptyMap, add_client(EmptyMap, IdA, 60, NoSender, 0)}}

DecodeInputs ==
    PublishHeaderInputs \cup ProtocolNameInputs \cup BufferInputs
    \cup WideHeaderInputs \cup PublishFrameInputs \cup ConnectFrameInputs
    \cup ConnAckBytesInputs \cup ConnAckHeaderInputs \cup PacketTypeInputs
    \cup DispatchInputs

InitDecode ==
    /\ cpc = "start"
    /\ cin \in DecodeInputs
    /\ cbytes = <<>>
    /\ cres = NoRecord
    /\ checks \in BOOLEAN
    /\ command_rx = <<>>
    /\ handled = <<>>
    /\ clients = EmptyMap
    /\ now = 0
    /\ sent = EmptyMap
    /\ last = NoRecord
    /\ prev = NoRecord
    /\ lock = "free"
    /\ pc = EmptyMap
    /\ frame = EmptyMap

\* PublishHeader::from_bytes(&data)
DecodePublishHeader ==
    /\ cpc = "start"
    /\ cin.kind = "publish_header"
    /\ cres' = PublishHeaderFromBytes(cin.data)
    /\ cpc' = "publish_header"
    /\ UNCHANGED <<cin, cbytes, checks, command_rx, handled, clients, now, sent, last, prev, lock, pc, frame>>

\* ConnectHeader::new(protocol_name, protocol_level, connect_flags, keep_alive)
NewConnectHeader ==
    /\ cpc = "start"
    /\ cin.kind = "protocol_name"
    /\ cres' = ConnectHeaderNew(cin.name, cin.protocol_level, cin.connect_flags,
                                cin.keep_alive)
    /\ cpc' = "connect_header"
    /\ UNCHANGED <<cin, cbytes, checks, command_rx, handled, clients, now, sent, last, prev, lock, pc, frame>>

\* MqttHeaders::parse(&buffer)
ParseBuffer ==
    /\ cpc = "start"
    /\ cin.kind = "buffer"
    /\ cres' = MqttHeadersParse(cin.data, checks)
    /\ cpc' = "buffer"
    /\ UNCHANGED <<cin, cbytes, checks, command_rx, handled, clients, now, sent, last, prev, lock, pc, frame>>

\* h.to_bytes(), h.remaining_length any u32
EncodeHeader ==
    /\ cpc = "start"
    /\ cin.kind = "wide_header"
    /\ cbytes' = MqttHeadersToBytes(cin.h)
    /\ cpc' = "wide_header"
    /\ UNCHANGED <<cin, cres, checks, command_rx, handled, clients, now, sent, last, prev, lock, pc, frame>>

\* Publish::from_bytes(data)
DecodePublish ==
    /\ cpc = "start"
    /\ cin.kind = "publish_frame"
    /\ cres' = PublishFromBytes(cin.data, checks)
    /\ cpc' = "publish"
    /\ UNCHANGED <<cin, cbytes, checks, command_rx, handled, clients, now, sent, last, prev, lock, pc, frame>>

\* Connect::from_bytes(data)
DecodeConnect ==
    /\ cpc = "start"
    /\ cin.kind = "connect_frame"
    /\ cres' = ConnectFromBytes(cin.data, checks)
    /\ cpc' = "connect"
    /\ UNCHANGED <<cin, cbytes, checks, command_rx, handled, clients, now, sent, last, prev, lock, pc, frame>>

\* ConnAckHeader::from_bytes(&data)
DecodeConnAckHeader ==
    /\ cpc = "start"
    /\ cin.kind = "connack_bytes"
    /\ cres' = ConnAckHeaderFromBytes(cin.data)
    /\ cpc' = "connack_header"
    /\ UNCHANGED <<cin, cbytes, checks, command_rx, handled, clients, now, sent, last, prev, lock, pc, frame>>

\* h.to_bytes()
EncodeConnAckHeader ==
    /\ cpc = "start"
    /\ cin.kind = "connack_header"
    /\ cbytes' = ConnAckHeaderToBytes(cin.h)
    /\ cpc' = "connack_bytes"
    /\ UNCHANGED <<cin, cres, checks, command_rx, handled, clients, now, sent, last, prev, lock, pc, frame>>

\* ConnAckHeader::from_bytes(&h.to_bytes())
DecodeConnAckBack ==
    /\ cpc = "connack_bytes"
    /\ cres' = ConnAckHeaderFromBytes(cbytes)
    /\ cpc' = "connack_back"
    /\ UNCHANGED <<cin, cbytes, checks, command_rx, handled, clients, now, sent, last, prev, lock, pc, frame>>

\* MqttPacketType::from_u8(value)
FromU8 ==
    /\ cpc = "start"
    /\ cin.kind = "packet_type"
    /\ cres' = from_u8(cin.value)
    /\ cpc' = "packet_type"
    /\ UNCHANGED <<cin, cbytes, checks, command_rx, handled, clients, now, sent, last, prev, lock, pc, frame>>

\* connection_handler with the lock free: the handler of the frame's kind runs
\* on the Broker, and its bytes are sent back unless there are none
DispatchFrame ==
    /\ cpc = "start"
    /\ cin.kind = "dispatch"
    /\ \E r \in {Dispatch(cin.data[1] \div 16, cin.data, cin.clients, 1, checks)} :
        cres' = IF r.tag = "Panic" THEN Panic
                ELSE [tag |-> "Ok", clients |-> r.clients, ret |-> r.ret,
                      sends |-> IF Len(r.ret) = 0 THEN <<>> ELSE <<r.ret>>]
    /\ cpc' = "dispatch"
    /\ UNCHANGED <<cin, cbytes, checks, command_rx, handled, clients, now, sent, last, prev, lock, pc, frame>>

NextDecode ==
    \/ DispatchFrame
    \/ FromU8
    \/ DecodePublishHeader
    \/ NewConnectHeader
    \/ ParseBuffer
    \/ EncodeHeader
    \/ DecodePublish
    \/ DecodeConnect
    \/ DecodeConnAckHeader
    \/ EncodeConnAckHeader
    \/ DecodeConnAckBack

SpecDecode == InitDecode /\ [][NextDecode]_vars

---------------------------------------------------------------------------
(* Claims on the decoders, checked under SpecDecode                        *)

\* C11 (as claimed): for a topic of length L, its 2-byte big-endian length
\* prefix, its L bytes and a 2-byte packet id, PublishHeader::from_bytes
\* returns that topic and that packet id.
C11_PublishHeaderDecoding ==
    cpc = "publish_header" =>
        cres = Ok([header_type |-> Publish, topic_name |-> cin.topic,
                   packet_id |-> cin.packet_id])

\* C12 (as claimed): ConnectHeader::new returns the error "Invalid Protocol
\* Name" for every protocol name other than "MQTT" and Ok only for "MQTT".
C12_ProtocolName ==
    cpc = "connect_header" =>
        IF cin.name = MqttName
        THEN cres.tag = "Ok"
        ELSE cres = Err("Invalid Protocol Name")

\* C15 (as claimed): MqttHeaders::parse returns a failure, never Ok, for a
\* buffer of at least 2 bytes whose every byte from offset 1 on has the
\* continuation bit 0x80 set.
C15_MalformedLength ==
    (cpc = "buffer" /\ \A i \in 2..Len(cin.data) : BitAnd(cin.data[i], 128) # 0) =>
        cres.tag = "Err"

\* C16 (as claimed): for every u32 remaining_length, to_bytes emits byte 0
\* and then at least 1 and at most 4 length bytes.
C16_LengthBytes ==
    cpc = "wide_header" => Len(cbytes) - 1 \in 1..4

\* C18 (as claimed): for a well-formed PUBLISH frame with a topic of any
\* length L, Publish::from_bytes returns as payload the bytes that follow
\* the variable header up to the end of the frame, verbatim.
C18_PublishPayload ==
    cpc = "publish" =>
        /\ cres.tag = "Ok"
        /\ cres.value.payload = PublishPayloadOf(cin.payload)

\* C19 (as claimed): for a well-formed CONNECT frame whose remaining length
\* takes k bytes, 1 or 2, Connect::from_bytes decodes the variable header
\* from offset 1+k and the payload from offset 1+k+8: the header and the
\* payload fields are what the frame was made of.
C19_ConnectOffsets ==
    cpc = "connect" =>
        /\ cres.tag = "Ok"
        /\ cres.value.variable_header =
              ConnectHeaderOf(cin.connect_flags, cin.keep_alive)
        /\ cres.value.payload =
              [tag |-> "Connect",
               client_id |-> Some(cin.fields[1]),
               will_topic |-> Some(cin.fields[2]),
               will_message |-> Some(cin.fields[3]),
               username |-> Some(cin.fields[4]),
               password |-> Some(cin.fields[5])]

\* C20: for every 2-byte input [b0, b1], ConnAckHeader::from_bytes returns
\* return_code = b1 and session_present = (b0 = 0x01), without failing, so
\* any b0 with one of bits 1..7 set gives session_present = false; and
\* from_bytes(h.to_bytes()) = h for every header h.
C20_ConnAckHeaderDecoding ==
    /\ cpc = "connack_header" =>
          cres = Ok(ConnAckHeaderNew(cin.data[1] = 1, cin.data[2]))
    /\ cpc = "connack_back" => cres = Ok(cin.h)

\* [0xA1, 0x05] has been decoded, to session_present = false and return
\* code 5
C20_Witness ==
    /\ cpc = "connack_header"
    /\ cin.data = <<161, 5>>
    /\ cres.tag = "Ok"
    /\ cres.value.session_present = FALSE
    /\ cres.value.return_code = 5

\* C21: MqttHeaders::parse makes the packet kind of the high nibble of
\* byte 0, 1 = Connect .. 14 = Disconnect, and the flags of the low nibble,
\* and fails with "Invalid MQTT Packet Type" for nibbles 0 and 15;
\* MqttPacketType::from_u8 gives the same kind or the same failure for the
\* nibble, and is Ok for 1..14 only among all u8 values.
C21_PacketKind ==
    /\ (cpc = "buffer" /\ Len(cin.data) = 2 /\ cin.data[2] = 0) =>
          LET nibble == cin.data[1] \div 16
          IN  IF nibble \in 1..14
              THEN /\ cres.tag = "Ok"
                   /\ cres.packet_type = nibble
                   /\ cres.flags = cin.data[1] % 16
                   /\ from_u8(nibble) = [tag |-> "Ok", packet_type |-> cres.packet_type]
              ELSE /\ cres = Err("Invalid MQTT Packet Type")
                   /\ from_u8(nibble) = cres
    /\ cpc = "packet_type" =>
          cres = IF cin.value \in 1..14
                 THEN [tag |-> "Ok", packet_type |-> cin.value]
                 ELSE Err("Invalid MQTT Packet Type")

\* byte 0 = 0xF3 (nibble 15, flags 3) has been parsed and refused
C21_Witness ==
    /\ cpc = "buffer"
    /\ cin.data = <<243, 0>>
    /\ cres = Err("Invalid MQTT Packet Type")

---------------------------------------------------------------------------
(* Claims on error handling and responses                                  *)

\* C23 (as claimed): a CONNACK frame handled by handle_connack is answered
\* with an error and leaves the registry unchanged (as Broker::run's ConnAck
\* arm does for a ConnAck command).
C23_ProtocolViolation ==
    (last.kind = "frame" /\ last.cmd.data[1] \div 16 = ConnAck) =>
        /\ Len(last.responses) = 1
        /\ last.responses[1].tag = "Err"
        /\ clients = last.before

C25_NoPanic ==
    /\ \A t \in Conns : pc[t] # "dead"
    /\ last.kind = "frame" => \A i \in 1..Len(last.responses) :
                                  last.responses[i] # Panic

---------------------------------------------------------------------------
(* Claims on the registry lifecycle and on delivery                        *)

\* C26 (as claimed): after a connection has registered client id c by a
\* successful CONNECT and its DISCONNECT frame is handled next,
\* is_client_connected(c) is false.
C26_DisconnectRemoves ==
    \A id \in {IdA, IdB}, fl \in {0, 2} :
        (prev.kind = "frame"
            /\ prev.cmd.data = ConnectFrame(id, fl, 60, <<>>)
            /\ prev.responses[1].tag = "Ok"
            /\ last.kind = "frame"
            /\ last.cmd.conn = prev.cmd.conn
            /\ last.cmd.data = <<224, 0>>
            /\ last.responses[1].tag = "Ok") =>
            ~is_client_connected(clients, id)

\* C27 (as claimed): after the broker handles a control packet received from
\* a registered client c (here: any frame that follows c's CONNECT on the
\* same connection), c's last_seen is the time of that handling.
C27_LastSeen ==
    \A id \in {IdA, IdB}, fl \in {0, 2} :
        (prev.kind = "frame"
            /\ prev.cmd.data = ConnectFrame(id, fl, 60, <<>>)
            /\ prev.responses[1].tag = "Ok"
            /\ last.kind = "frame"
            /\ last.cmd.conn = prev.cmd.conn
            /\ last.responses[1].tag = "Ok"
            /\ is_client_connected(clients, id)) =>
            clients[id].last_seen = last.at

---------------------------------------------------------------------------
(* Claims on concurrency                                                   *)

---------------------------------------------------------------------------
(* SpecQueue: producers, the command channel and the loop of Broker::run   *)

\* how many commands the producers send in all
MaxQueue == 3

\* the commands the producers send
QueueCommands ==
    {cmd \in ConnectCommands :
        cmd.packet.payload = ConnectPayloadOf(Some(IdA))
            /\ cmd.packet.variable_header.connect_flags = 0}
    \cup ConnAckCommands
    \cup {cmd \in PublishCommands :
            /\ cmd.packet.payload.tag = "Publish"
            /\ cmd.packet.variable_header.topic_name = TopicT
            /\ get_qos_level(cmd.packet.fixed_header) \in {0, 1}}

\* the registries the loop starts from
QueueRegistries ==
    {r \in StartRegistries :
        /\ DOMAIN r \subseteq {IdB}
        /\ \A c \in DOMAIN r : r[c].connected_status = "Connected"
                                /\ r[c].subscriptions = {TopicT}}

\* the commands of connection t in a sequence of queued or handled commands
OfConn(q, t) == {i \in 1..Len(q) : q[i].conn = t}

\* how many commands connection t has sent so far
Emitted(t) == Cardinality(OfConn(handled, t)) + Cardinality(OfConn(command_rx, t))

InitQueue ==
    /\ cpc = "queue"
    /\ cin = NoRecord
    /\ cbytes = <<>>
    /\ cres = NoRecord
    /\ checks = TRUE
    /\ command_rx = <<>>
    /\ handled = <<>>
    /\ clients \in QueueRegistries
    /\ now = 1
    /\ sent = [ch \in Channels |-> <<>>]
    /\ last = NoRecord
    /\ prev = NoRecord
    /\ lock = "free"
    /\ pc = EmptyMap
    /\ frame = EmptyMap

\* a producer (a connection's task) sends its next command on the channel
Send(t, cmd) ==
    /\ Len(command_rx) + Len(handled) < MaxQueue
    /\ command_rx' = Append(command_rx,
                            [conn |-> t, seq |-> Emitted(t) + 1, cmd |-> cmd])
    /\ UNCHANGED <<cpc, cin, cbytes, cres, checks, handled, clients, now, sent,
                   last, prev, lock, pc, frame>>

\* command_rx.recv(): the oldest buffered command and what stays buffered
RecvMut(q) == [command |-> q[Len(q)], rest |-> SubSeq(q, 1, Len(q) - 1)]
Recv(q) == [command |-> Head(q), rest |-> Tail(q)]

\* one turn of `while let Some(command) = command_rx.recv().await { match .. }`
RunNext ==
    /\ command_rx # <<>>
    /\ \E r \in {Recv(command_rx)} :
        /\ command_rx' = r.rest
        /\ handled' = Append(handled, [conn |-> r.command.conn,
                                       seq |-> r.command.seq,
                                       cmd |-> r.command.cmd, at |-> now])
        /\ CASE r.command.cmd.kind = "Connect" -> RunConnect(r.command.cmd)
             [] r.command.cmd.kind = "ConnAck" -> RunConnAck(r.command.cmd)
             [] OTHER -> RunPublish(r.command.cmd)

NextQueue ==
    \/ \E t \in Conns, cmd \in QueueCommands : Send(t, cmd)
    \/ RunNext

SpecQueue == InitQueue /\ [][NextQueue]_vars

\* C29: Broker::run handles one command at a time, each at its own point of
\* the total order, on the registry the command before it left; the commands
\* of one connection are handled in the order the connection sent them,
\* however the producers' sends interleave.
C29_TotalOrder ==
    /\ \A i, j \in 1..Len(handled) :
        i < j => /\ handled[i].at < handled[j].at
                 /\ handled[i].conn = handled[j].conn =>
                        handled[i].seq < handled[j].seq
    /\ \A i \in 1..Len(handled), k \in 1..Len(command_rx) :
        handled[i].conn = command_rx[k].conn => handled[i].seq < command_rx[k].seq
    /\ \A t \in Conns :
        {handled[i].seq : i \in OfConn(handled, t)} =
            1..Cardinality(OfConn(handled, t))
    /\ handled # <<>> =>
        /\ last.cmd = handled[Len(handled)].cmd
        /\ last.at = handled[Len(handled)].at
    /\ Len(handled) >= 2 =>
        /\ prev.cmd = handled[Len(handled) - 1].cmd
        /\ prev.at + 1 = last.at

\* the sends of two connections interleaved: conn1, conn2, conn1; the first
\* two have been handled in that order and conn1's second command waits
C29_Witness ==
    /\ Len(handled) = 2
    /\ handled[1].conn = "conn1"
    /\ handled[2].conn = "conn2"
    /\ Len(command_rx) = 1
    /\ command_rx[1].conn = "conn1"
    /\ command_rx[1].seq = 2
    /\ handled[1].cmd.kind = "Connect"
    /\ is_client_connected(clients, IdA)

---------------------------------------------------------------------------
(* Claims on availability                                                  *)

\* C31 (as claimed): the broker is never unavailable for good: whenever no
\* task is inside a handler the mutex can be acquired by the next frame, and
\* a frame that failed to acquire it met a task inside a handler and left
\* the registry unchanged.
C31_NeverPermanent ==
    /\ (\A t \in Conns : pc[t] # "locked") => lock = "free"
    /\ last.kind = "dropped" =>
        /\ clients = last.before
        /\ \E t \in Conns : pc[t] = "locked"

---------------------------------------------------------------------------
(* Claims on value ranges                                                  *)

\* C32 (as claimed): every SubscribePayload that parse_payload returns has
\* qos in {0, 1, 2}, whatever the QoS byte of the input.
C32_QoSRange ==
    (cpc = "payload" /\ cres.tag = "Subscribe") => cres.qos \in {0, 1, 2}

\* C33 (as claimed): for every buffer MqttHeaders::parse reads at most 4
\* remaining-length bytes, its value and multiplier never overflow the u32
\* (no panic with overflow checks, no wrapping without), and a header it
\* returns has remaining_length <= 268435455 (hi limb <= 4095) and
\* remaining_length_bytes in 1..4.
C33_BoundedLength ==
    cpc = "buffer" =>
        /\ cres.tag # "Panic"
        /\ cres.tag = "Ok" =>
            /\ cres.remaining_length.hi <= 4095
            /\ cres.remaining_length_bytes \in 1..4

---------------------------------------------------------------------------
(* SpecBroker: one Broker, empty at first, reached by the frames of the    *)
(* connection tasks and by the commands of Broker::run                     *)

\* the commands sent on the channel: those of SpecQueue and a Publish whose
\* payload is not a Publish payload
BrokerCommands ==
    QueueCommands \cup {cmd \in PublishCommands : cmd.packet.payload = DefaultPayload}

\* the frames dispatched: CONNECT for two ids, one frame of each other kind
\* tried, a CONNECT cut short
BrokerFrames ==
    {ConnectFrame(id, 0, 60, <<>>) : id \in {IdA, IdB}} \cup OtherFrames \cup {<<16, 0>>}

\* Broker::new(): no clients
InitBroker ==
    /\ Init
    /\ clients = EmptyMap

\* a command is sent once the one before it has been taken from the channel:
\* the commands are handled in the order sent, whatever the buffering
NextBroker ==
    \/ \E t \in Conns, data \in BrokerFrames : TryLockOk(t, data)
    \/ \E t \in Conns, data \in BrokerFrames : TryLockErr(t, data)
    \/ \E t \in Conns : Handle(t)
    \/ \E cmd \in BrokerCommands : command_rx = <<>> /\ Send("conn1", cmd)
    \/ RunNext

SpecBroker == InitBroker /\ [][NextBroker]_vars

---------------------------------------------------------------------------
(* Claims on the registry's entries, checked under SpecBroker              *)

\* C34: every registry entry reachable from an empty Broker has status
\* Connected; no entry is ever AwaitingReconnect or Disconnected.
C34_AlwaysConnected ==
    \A c \in DOMAIN clients : clients[c].connected_status = "Connected"

\* one entry made by a CONNECT frame and one made by a Connect command
C34_Witness ==
    /\ DOMAIN clients = {IdA, IdB}
    /\ clients[IdA].ws_sender = "chNew"
    /\ clients[IdB].ws_sender = NoSender
    /\ last.kind \in {"frame", "Connect"}
    /\ prev.kind \in {"frame", "Connect"}

\* C35 (as claimed): every entry's subscription set is empty, and every
\* Publish command handled by Broker::run is answered with the
\* no-subscribers error.
C35_NoSubscriptions ==
    /\ \A c \in DOMAIN clients : clients[c].subscriptions = {}
    /\ last.kind = "Publish" =>
        last.responses = <<Err("No subscribers found for topic")>>

\* C35 (as amended): every entry's subscription set is empty, and every
\* Publish command whose payload is a Publish payload is answered with the
\* no-subscribers error; one with another payload gets the invalid-payload
\* error.
C35_NoSubscriptionsAmended ==
    /\ \A c \in DOMAIN clients : clients[c].subscriptions = {}
    /\ last.kind = "Publish" =>
        last.responses =
            <<IF last.cmd.packet.payload.tag = "Publish"
              THEN Err("No subscribers found for topic")
              ELSE Err("Invalid payload")>>

\* a CONNECT frame has registered a client and a Publish command with a
\* Publish payload, handled next, found nobody subscribed
C35_Witness ==
    /\ prev.kind = "frame"
    /\ last.kind = "Publish"
    /\ last.cmd.packet.payload.tag = "Publish"
    /\ last.before # EmptyMap
    /\ last.responses = <<Err("No subscribers found for topic")>>

---------------------------------------------------------------------------
(* Claims on the dispatcher's handlers, checked under SpecDecode           *)

\* C36: for a frame of every packet kind other than Connect the registered
\* handler leaves the registry as it was and returns no bytes, and
\* connection_handler sends nothing back.
C36_NonConnectNoOp ==
    (cpc = "dispatch" /\ cin.data[1] \div 16 # Connect) =>
        /\ cres.tag = "Ok"
        /\ cres.clients = cin.clients
        /\ cres.ret = <<>>
        /\ cres.sends = <<>>

\* a SUBSCRIBE frame with a topic has met a registry that holds a client
C36_Witness ==
    /\ cpc = "dispatch"
    /\ cin.data[1] \div 16 = Subscribe
    /\ Len(cin.data) > 2
    /\ IdA \in DOMAIN cin.clients
    /\ cres.tag = "Ok"
    /\ cres.clients = cin.clients
    /\ cres.sends = <<>>

===========================================================================
